---- MODULE Spec2Model ----
(***************************************************************************)
(* State-machine model of src/src/main.cpp: window bootstrap, geometry     *)
(* setup, shader program build, render loop and shutdown.  Every GL/GLFW   *)
(* call of main.cpp is one action; pc is the position of the single        *)
(* thread.  The GL server state the calls touch (bindings, the vertex      *)
(* array object, buffer stores, shader/program objects) is modelled with   *)
(* the semantics of the OpenGL 3.3 core profile and GLFW 3.                *)
(***************************************************************************)
EXTENDS Integers, Sequences, FiniteSets, TLC

\* ---- bounds of the model ------------------------------------------------
MaxFrames == 2      \* render-loop iterations explored
MaxEvents == 2      \* events delivered by one glfwPollEvents
MaxScale  == 2      \* framebuffer size = scale * screen size, scale in 1..MaxScale
MaxSlot   == 1      \* vertex attribute slots 0..MaxSlot are modelled

\* ---- program constants --------------------------------------------------
SCREEN_WIDTH  == 640
SCREEN_HEIGHT == 480

\* float vertices[] (tenths, so 0.5f is 5): 4 positions of 3 components
vertices == <<5, 5, 0,   5, -5, 0,   -5, -5, 0,   -5, 5, 0>>

indices_swapped == <<0, 1, 3, 1, 2, 4>>
\* GLuint indices[]
indices == <<0, 1, 3, 1, 2, 3>>

\* glVertexAttribPointer(0, 3, ...): components per vertex
AttribSize == 3
\* glDrawElements(GL_TRIANGLES, 6, GL_UNSIGNED_INT, 0)
DrawCount  == 6
DrawOffset == 0

NONE == "NONE"      \* the GL name 0 / no object

Keys    == {"GLFW_KEY_ESCAPE", "GLFW_KEY_OTHER"}
Actions == {"GLFW_PRESS", "GLFW_RELEASE", "GLFW_REPEAT"}
\* what glfwPollEvents can deliver: a key event, or the OS close request
Events  == [type : {"key"}, key : Keys, action : Actions]
           \cup {[type |-> "close", key |-> "GLFW_KEY_OTHER", action |-> "GLFW_RELEASE"]}

Slots == 0..MaxSlot

VARIABLES
    pc,                 \* position of the thread in main.cpp
    window,             \* "none" | "open" | "destroyed"
    context_current,    \* a GL context is current on the thread
    glfw_state,         \* "uninit" | "init" | "terminated"
    should_close,       \* the window's close flag
    vbo_name, ibo_name, vao_name,               \* locals of geometry setup / main
    vertex_shader, fragment_shader, shader_program,
    success,            \* int success of create_shader_program
    stdout,             \* diagnostics written to std::cout
    object_state,       \* GL object -> "none" | "alive" | "flagged" | "released"
    release_count,      \* GL object / window -> times its storage was released
    array_buffer,       \* GL_ARRAY_BUFFER binding
    vertex_array,       \* bound vertex array object
    current_program,    \* program installed by glUseProgram
    program_used,       \* argument of the last glUseProgram call
    vao_element_buffer, \* element array buffer recorded in the VAO
    vao_attrib,         \* slot -> [enabled, buffer, size] recorded in the VAO
    buffer_data,        \* buffer object -> its data store
    compile_status,     \* shader -> GL_COMPILE_STATUS
    link_status,        \* GL_LINK_STATUS of the program
    attached,           \* shaders attached to the program
    linked,             \* glLinkProgram has been called
    shader_deletes,     \* log of glDeleteShader calls: [shader, after_link, was_attached]
    width, height,      \* int width, height of main
    viewport,           \* <<w, h>> set by glViewport
    iter,               \* calls issued in the current iteration of the loop
    frames,             \* iterations started
    last_draw,          \* what the last glDrawElements read
    escape_delivered,   \* an Escape press has been delivered to key_callback
    loop_exited,        \* the loop condition has been seen false
    delete_log,         \* log of shutdown glDelete* calls: [object, context]
    exit_status         \* "running" | "EXIT_SUCCESS" | "killed_by_signal"

vars == <<pc, window, context_current, glfw_state, should_close,
          vbo_name, ibo_name, vao_name, vertex_shader, fragment_shader,
          shader_program, success, stdout, object_state, release_count,
          array_buffer, vertex_array, current_program, program_used,
          vao_element_buffer, vao_attrib, buffer_data, compile_status,
          link_status, attached, linked, shader_deletes, width, height, viewport, iter, frames,
          last_draw, escape_delivered, loop_exited, delete_log, exit_status>>

\* groups used in UNCHANGED
win_vars    == <<window, context_current, glfw_state, should_close>>
local_vars  == <<vbo_name, ibo_name, vao_name, vertex_shader, fragment_shader,
                 shader_program, success, width, height>>
obj_vars    == <<object_state, release_count, buffer_data>>
bind_vars   == <<array_buffer, vertex_array, current_program, program_used,
                 vao_element_buffer, vao_attrib>>
shader_vars == <<compile_status, link_status, attached, linked,
                 shader_deletes, stdout>>
loop_vars   == <<viewport, iter, frames, last_draw, escape_delivered,
                 loop_exited>>
end_vars    == <<delete_log, exit_status>>

Objects == {"VAO", "VBO", "IBO", "VS", "FS", "PROG"}
NoDraw  == [program |-> NONE, element_buffer |-> NONE, vertex_buffer |-> NONE,
            enabled |-> {}, indices_read |-> <<>>, index_count |-> 0,
            vertex_count |-> 0]

\* state at entry of main(): nothing created yet
Init ==
    /\ pc = "initialize_window"
    /\ window = "none" /\ context_current = FALSE /\ glfw_state = "uninit"
    /\ should_close = FALSE
    /\ vbo_name = NONE /\ ibo_name = NONE /\ vao_name = NONE
    /\ vertex_shader = NONE /\ fragment_shader = NONE /\ shader_program = NONE
    /\ success = TRUE
    /\ stdout = <<>>
    /\ object_state = [o \in Objects |-> "none"]
    /\ release_count = [o \in Objects \cup {"WINDOW", "GLFW"} |-> 0]
    /\ array_buffer = NONE /\ vertex_array = NONE /\ current_program = NONE
    /\ program_used = NONE
    /\ vao_element_buffer = NONE
    /\ vao_attrib = [s \in Slots |-> [enabled |-> FALSE, buffer |-> NONE, size |-> 0]]
    /\ buffer_data = [b \in {"VBO", "IBO"} |-> <<>>]
    /\ compile_status = [s \in {"VS", "FS"} |-> FALSE]
    /\ link_status = FALSE
    /\ attached = {}
    /\ linked = FALSE
    /\ shader_deletes = <<>>
    /\ width = 0 /\ height = 0
    /\ viewport = <<0, 0>>
    /\ iter = <<>>
    /\ frames = 0
    /\ last_draw = NoDraw
    /\ escape_delivered = FALSE
    /\ loop_exited = FALSE
    /\ delete_log = <<>>
    /\ exit_status = "running"

\* main.cpp:151  initialize_glfw_glad_and_return_window(...): the library is
\* initialised, one window with a current GL context exists, its close flag
\* is clear.
InitializeWindow ==
    /\ pc = "initialize_window"
    /\ glfw_state' = "init"
    /\ window' = "open"
    /\ context_current' = TRUE
    /\ should_close' = FALSE
    /\ pc' = "gen_vao"
    /\ UNCHANGED <<local_vars, obj_vars, bind_vars, shader_vars, loop_vars, end_vars>>

(***************************************************************************)
(* prepare_drawing_data_and_opengl_drawing_data()                          *)
(***************************************************************************)
\* glGenVertexArrays(1, &vao_name)
GenVertexArrays ==
    /\ pc = "gen_vao"
    /\ vao_name' = "VAO"
    /\ object_state' = [object_state EXCEPT !["VAO"] = "alive"]
    /\ pc' = "gen_vbo"
    /\ UNCHANGED <<win_vars, vbo_name, ibo_name, vertex_shader, fragment_shader,
                   shader_program, success, width, height, release_count,
                   buffer_data, bind_vars, shader_vars, loop_vars, end_vars>>

\* glGenBuffers(1, &vbo_name)
GenVertexBuffer ==
    /\ pc = "gen_vbo"
    /\ vbo_name' = "VBO"
    /\ object_state' = [object_state EXCEPT !["VBO"] = "alive"]
    /\ pc' = "gen_ibo"
    /\ UNCHANGED <<win_vars, vao_name, ibo_name, vertex_shader, fragment_shader,
                   shader_program, success, width, height, release_count,
                   buffer_data, bind_vars, shader_vars, loop_vars, end_vars>>

\* glGenBuffers(1, &ibo_name)
GenIndexBuffer ==
    /\ pc = "gen_ibo"
    /\ ibo_name' = "IBO"
    /\ object_state' = [object_state EXCEPT !["IBO"] = "alive"]
    /\ pc' = "setup_bind_vao"
    /\ UNCHANGED <<win_vars, vao_name, vbo_name, vertex_shader, fragment_shader,
                   shader_program, success, width, height, release_count,
                   buffer_data, bind_vars, shader_vars, loop_vars, end_vars>>

\* glBindVertexArray(vao_name)
SetupBindVertexArray ==
    /\ pc = "setup_bind_vao"
    /\ vertex_array' = vao_name
    /\ pc' = "bind_vbo"
    /\ UNCHANGED <<win_vars, local_vars, obj_vars, array_buffer, current_program,
                   program_used, vao_element_buffer, vao_attrib, shader_vars, loop_vars, end_vars>>

\* glBindBuffer(GL_ARRAY_BUFFER, vbo_name)
BindArrayBuffer ==
    /\ pc = "bind_vbo"
    /\ array_buffer' = vbo_name
    /\ pc' = "data_vbo"
    /\ UNCHANGED <<win_vars, local_vars, obj_vars, vertex_array, current_program,
                   program_used, vao_element_buffer, vao_attrib, shader_vars, loop_vars, end_vars>>

\* glBufferData(GL_ARRAY_BUFFER, sizeof(vertices), vertices, GL_STATIC_DRAW):
\* fills the store of the buffer bound to GL_ARRAY_BUFFER
ArrayBufferData ==
    /\ pc = "data_vbo"
    /\ buffer_data' = IF array_buffer = NONE THEN buffer_data
                      ELSE [buffer_data EXCEPT ![array_buffer] = vertices]
    /\ pc' = "bind_ibo"
    /\ UNCHANGED <<win_vars, local_vars, object_state, release_count, bind_vars,
                   shader_vars, loop_vars, end_vars>>

\* glBindBuffer(GL_ELEMENT_ARRAY_BUFFER, ibo_name): the element array binding
\* is state of the bound vertex array object
BindElementBuffer ==
    /\ pc = "bind_ibo"
    /\ vao_element_buffer' = IF vertex_array = NONE THEN vao_element_buffer
                             ELSE ibo_name
    /\ pc' = "data_ibo"
    /\ UNCHANGED <<win_vars, local_vars, obj_vars, array_buffer, vertex_array,
                   current_program, program_used, vao_attrib, shader_vars,
                   loop_vars, end_vars>>

\* glBufferData(GL_ELEMENT_ARRAY_BUFFER, sizeof(indices), indices, GL_STATIC_DRAW)
ElementBufferData ==
    /\ pc = "data_ibo"
    /\ buffer_data' = IF vertex_array = NONE \/ vao_element_buffer = NONE
                      THEN buffer_data
                      ELSE [buffer_data EXCEPT ![vao_element_buffer] = indices]
    /\ pc' = "attrib_pointer"
    /\ UNCHANGED <<win_vars, local_vars, object_state, release_count, bind_vars,
                   shader_vars, loop_vars, end_vars>>

\* glVertexAttribPointer(0, 3, GL_FLOAT, GL_FALSE, 3 * sizeof(float), 0):
\* slot 0 of the bound VAO records the buffer bound to GL_ARRAY_BUFFER
VertexAttribPointer ==
    /\ pc = "attrib_pointer"
    /\ vao_attrib' = IF vertex_array = NONE THEN vao_attrib
                     ELSE [vao_attrib EXCEPT ![0].buffer = array_buffer,
                                             ![0].size = AttribSize]
    /\ pc' = "enable_attrib"
    /\ UNCHANGED <<win_vars, local_vars, obj_vars, array_buffer, vertex_array,
                   current_program, program_used, vao_element_buffer, shader_vars,
                   loop_vars, end_vars>>

\* glEnableVertexAttribArray(0)
EnableVertexAttribArray ==
    /\ pc = "enable_attrib"
    /\ vao_attrib' = IF vertex_array = NONE THEN vao_attrib
                     ELSE [vao_attrib EXCEPT ![0].enabled = TRUE]
    /\ pc' = "unbind_vbo"
    /\ UNCHANGED <<win_vars, local_vars, obj_vars, array_buffer, vertex_array,
                   current_program, program_used, vao_element_buffer, shader_vars,
                   loop_vars, end_vars>>

\* variant that also executes the commented-out line 84,
\* glBindBuffer(GL_ELEMENT_ARRAY_BUFFER, 0), while the VAO is bound
UnbindArrayBuffer_and_element ==
    /\ pc = "unbind_vbo"
    /\ array_buffer' = NONE
    /\ vao_element_buffer' = IF vertex_array = NONE THEN vao_element_buffer ELSE NONE
    /\ pc' = "unbind_vao"
    /\ UNCHANGED <<win_vars, local_vars, obj_vars, vertex_array, current_program,
                   program_used, vao_attrib, shader_vars, loop_vars, end_vars>>

\* glBindBuffer(GL_ARRAY_BUFFER, 0)
UnbindArrayBuffer ==
    /\ pc = "unbind_vbo"
    /\ array_buffer' = NONE
    /\ pc' = "unbind_vao"
    /\ UNCHANGED <<win_vars, local_vars, obj_vars, vertex_array, current_program,
                   program_used, vao_element_buffer, vao_attrib, shader_vars, loop_vars, end_vars>>

\* glBindVertexArray(0); return {vbo_name, ibo_name, vao_name}
UnbindVertexArray ==
    /\ pc = "unbind_vao"
    /\ vertex_array' = NONE
    /\ pc' = "vs_compile"
    /\ UNCHANGED <<win_vars, local_vars, obj_vars, array_buffer, current_program,
                   program_used, vao_element_buffer, vao_attrib, shader_vars, loop_vars, end_vars>>

(***************************************************************************)
(* create_shader_program()                                                 *)
(***************************************************************************)
\* the driver's verdict on a link: glLinkProgram fails when an attached
\* shader is not compiled successfully, otherwise the driver decides
LinkOutcomes == IF compile_status["VS"] /\ compile_status["FS"]
                THEN BOOLEAN ELSE {FALSE}

\* glCreateShader(GL_VERTEX_SHADER); glShaderSource; glCompileShader
VertexShaderCompile ==
    /\ pc = "vs_compile"
    /\ vertex_shader' = "VS"
    /\ object_state' = [object_state EXCEPT !["VS"] = "alive"]
    /\ \E ok \in BOOLEAN : compile_status' = [compile_status EXCEPT !["VS"] = ok]
    /\ pc' = "vs_check"
    /\ UNCHANGED <<win_vars, vbo_name, ibo_name, vao_name, fragment_shader,
                   shader_program, success, width, height, release_count,
                   buffer_data, bind_vars, link_status, attached, linked,
                   shader_deletes, stdout, loop_vars, end_vars>>

\* variant that gives up when the vertex shader fails to compile
VertexShaderCheck_abort ==
    /\ pc = "vs_check"
    /\ success' = compile_status[vertex_shader]
    /\ IF compile_status[vertex_shader]
       THEN /\ pc' = "fs_compile"
            /\ UNCHANGED <<stdout, exit_status>>
       ELSE /\ stdout' = Append(stdout, "ERROR::SHADER::VERTEX::COMPILATION_FAILED")
            /\ exit_status' = "EXIT_FAILURE"
            /\ pc' = "done"
    /\ UNCHANGED <<win_vars, vbo_name, ibo_name, vao_name, vertex_shader,
                   fragment_shader, shader_program, width, height, obj_vars,
                   bind_vars, compile_status, link_status, attached, linked,
                   shader_deletes, loop_vars, delete_log>>

\* glGetShaderiv(vertex_shader, GL_COMPILE_STATUS, &success);
\* if (!success) { glGetShaderInfoLog; std::cout << "ERROR::SHADER::VERTEX..." }
VertexShaderCheck ==
    /\ pc = "vs_check"
    /\ success' = compile_status[vertex_shader]
    /\ stdout' = IF compile_status[vertex_shader] THEN stdout
                 ELSE Append(stdout, "ERROR::SHADER::VERTEX::COMPILATION_FAILED")
    /\ pc' = "fs_compile"
    /\ UNCHANGED <<win_vars, vbo_name, ibo_name, vao_name, vertex_shader,
                   fragment_shader, shader_program, width, height, obj_vars,
                   bind_vars, compile_status, link_status, attached, linked,
                   shader_deletes, loop_vars, end_vars>>

\* glCreateShader(GL_FRAGMENT_SHADER); glShaderSource; glCompileShader
FragmentShaderCompile ==
    /\ pc = "fs_compile"
    /\ fragment_shader' = "FS"
    /\ object_state' = [object_state EXCEPT !["FS"] = "alive"]
    /\ \E ok \in BOOLEAN : compile_status' = [compile_status EXCEPT !["FS"] = ok]
    /\ pc' = "fs_check"
    /\ UNCHANGED <<win_vars, vbo_name, ibo_name, vao_name, vertex_shader,
                   shader_program, success, width, height, release_count,
                   buffer_data, bind_vars, link_status, attached, linked,
                   shader_deletes, stdout, loop_vars, end_vars>>

\* glGetShaderiv(fragment_shader, GL_COMPILE_STATUS, &success); if (!success) ...
FragmentShaderCheck ==
    /\ pc = "fs_check"
    /\ success' = compile_status[fragment_shader]
    /\ stdout' = IF compile_status[fragment_shader] THEN stdout
                 ELSE Append(stdout, "ERROR::SHADER::FRAGMENT::COMPILATION_FAILED")
    /\ pc' = "create_program"
    /\ UNCHANGED <<win_vars, vbo_name, ibo_name, vao_name, vertex_shader,
                   fragment_shader, shader_program, width, height, obj_vars,
                   bind_vars, compile_status, link_status, attached, linked,
                   shader_deletes, loop_vars, end_vars>>

\* shader_program = glCreateProgram()
CreateProgram ==
    /\ pc = "create_program"
    /\ shader_program' = "PROG"
    /\ object_state' = [object_state EXCEPT !["PROG"] = "alive"]
    /\ pc' = "attach_vs"
    /\ UNCHANGED <<win_vars, vbo_name, ibo_name, vao_name, vertex_shader,
                   fragment_shader, success, width, height, release_count,
                   buffer_data, bind_vars, shader_vars, loop_vars, end_vars>>

\* glAttachShader(shader_program, vertex_shader)
AttachVertexShader ==
    /\ pc = "attach_vs"
    /\ attached' = attached \cup {vertex_shader}
    /\ pc' = "attach_fs"
    /\ UNCHANGED <<win_vars, local_vars, obj_vars, bind_vars, compile_status,
                   link_status, linked, shader_deletes, stdout, loop_vars, end_vars>>

\* glAttachShader(shader_program, fragment_shader)
AttachFragmentShader ==
    /\ pc = "attach_fs"
    /\ attached' = attached \cup {fragment_shader}
    /\ pc' = "link"
    /\ UNCHANGED <<win_vars, local_vars, obj_vars, bind_vars, compile_status,
                   link_status, linked, shader_deletes, stdout, loop_vars, end_vars>>

\* glLinkProgram(shader_program)
LinkProgram ==
    /\ pc = "link"
    /\ \E ok \in LinkOutcomes : link_status' = ok
    /\ linked' = TRUE
    /\ pc' = "link_check"
    /\ UNCHANGED <<win_vars, local_vars, obj_vars, bind_vars, compile_status,
                   attached, shader_deletes, stdout, loop_vars, end_vars>>

\* glGetProgramiv(shader_program, GL_LINK_STATUS, &success); if (!success) ...
LinkCheck ==
    /\ pc = "link_check"
    /\ success' = link_status
    /\ stdout' = IF link_status THEN stdout
                 ELSE Append(stdout, "ERROR::SHADER::PROGRAM::LINKING_FAILED")
    /\ pc' = "delete_vs"
    /\ UNCHANGED <<win_vars, vbo_name, ibo_name, vao_name, vertex_shader,
                   fragment_shader, shader_program, width, height, obj_vars,
                   bind_vars, compile_status, link_status, attached, linked,
                   shader_deletes, loop_vars, end_vars>>

\* glDeleteShader(s): a shader attached to a program is flagged for deletion
\* and freed when it is detached; an unattached one is freed at once
DeleteShaderState(s) ==
    [object_state EXCEPT ![s] = IF s \in attached THEN "flagged" ELSE "released"]
DeleteShaderCount(s) ==
    [release_count EXCEPT ![s] = IF s \in attached THEN @ ELSE @ + 1]

\* variant that deletes the vertex shader only when the build succeeded
DeleteVertexShader_on_success ==
    /\ pc = "delete_vs"
    /\ IF success
       THEN /\ object_state' = DeleteShaderState(vertex_shader)
            /\ release_count' = DeleteShaderCount(vertex_shader)
            /\ shader_deletes' = Append(shader_deletes,
                   [shader |-> vertex_shader, after_link |-> linked,
                    was_attached |-> vertex_shader \in attached])
       ELSE UNCHANGED <<object_state, release_count, shader_deletes>>
    /\ pc' = "delete_fs"
    /\ UNCHANGED <<win_vars, local_vars, buffer_data, bind_vars, compile_status,
                   link_status, attached, linked, stdout, loop_vars, end_vars>>

\* glDeleteShader(vertex_shader)
DeleteVertexShader ==
    /\ pc = "delete_vs"
    /\ object_state' = DeleteShaderState(vertex_shader)
    /\ release_count' = DeleteShaderCount(vertex_shader)
    /\ shader_deletes' = Append(shader_deletes,
           [shader |-> vertex_shader, after_link |-> linked,
            was_attached |-> vertex_shader \in attached])
    /\ pc' = "delete_fs"
    /\ UNCHANGED <<win_vars, local_vars, buffer_data, bind_vars, compile_status,
                   link_status, attached, linked, stdout, loop_vars, end_vars>>

\* glDeleteShader(fragment_shader); return shader_program
DeleteFragmentShader ==
    /\ pc = "delete_fs"
    /\ object_state' = DeleteShaderState(fragment_shader)
    /\ release_count' = DeleteShaderCount(fragment_shader)
    /\ shader_deletes' = Append(shader_deletes,
           [shader |-> fragment_shader, after_link |-> linked,
            was_attached |-> fragment_shader \in attached])
    /\ pc' = "loop_check"
    /\ UNCHANGED <<win_vars, local_vars, buffer_data, bind_vars, compile_status,
                   link_status, attached, linked, stdout, loop_vars, end_vars>>

(***************************************************************************)
(* key_callback and event delivery                                         *)
(***************************************************************************)
key_callback_on_release(flag, key, action) ==
    IF key = "GLFW_KEY_ESCAPE" /\ action = "GLFW_RELEASE" THEN TRUE ELSE flag

\* key_callback: the close flag after the callback ran with (key, action)
key_callback(flag, key, action) ==
    IF key = "GLFW_KEY_ESCAPE" /\ action = "GLFW_PRESS" THEN TRUE ELSE flag

\* sequences of at most n events
RECURSIVE EventSeqs(_)
EventSeqs(n) ==
    IF n = 0 THEN {<<>>}
    ELSE EventSeqs(n - 1)
         \cup {Append(q, e) : q \in {r \in EventSeqs(n - 1) : Len(r) = n - 1},
                              e \in Events}

\* the close flag after glfwPollEvents dispatched the events in order: a key
\* event runs key_callback, the OS close request sets the flag
RECURSIVE Deliver(_, _)
Deliver(flag, evs) ==
    IF evs = <<>> THEN flag
    ELSE Deliver(IF Head(evs).type = "close" THEN TRUE
                 ELSE key_callback(flag, Head(evs).key, Head(evs).action),
                 Tail(evs))

IsEscapePress(e) ==
    e.type = "key" /\ e.key = "GLFW_KEY_ESCAPE" /\ e.action = "GLFW_PRESS"

(***************************************************************************)
(* main(): the render loop                                                 *)
(***************************************************************************)
\* while (!glfwWindowShouldClose(window))
LoopCheck ==
    /\ pc = "loop_check"
    /\ IF should_close
       THEN /\ loop_exited' = TRUE
            /\ pc' = "destroy_window"
            /\ UNCHANGED <<iter, frames>>
       ELSE /\ frames < MaxFrames
            /\ frames' = frames + 1
            /\ iter' = <<>>
            /\ pc' = "get_framebuffer_size"
            /\ UNCHANGED loop_exited
    /\ UNCHANGED <<win_vars, local_vars, obj_vars, bind_vars, shader_vars,
                   viewport, last_draw, escape_delivered, end_vars>>

\* glfwGetFramebufferSize(window, &width, &height)
GetFramebufferSize ==
    /\ pc = "get_framebuffer_size"
    /\ \E scale \in 1..MaxScale :
          /\ width' = scale * SCREEN_WIDTH
          /\ height' = scale * SCREEN_HEIGHT
    /\ iter' = Append(iter, "glfwGetFramebufferSize")
    /\ pc' = "viewport"
    /\ UNCHANGED <<win_vars, vbo_name, ibo_name, vao_name, vertex_shader,
                   fragment_shader, shader_program, success, obj_vars, bind_vars,
                   shader_vars, viewport, frames, last_draw, escape_delivered,
                   loop_exited, end_vars>>

\* glViewport(0, 0, width, height)
Viewport ==
    /\ pc = "viewport"
    /\ viewport' = <<width, height>>
    /\ iter' = Append(iter, "glViewport")
    /\ pc' = "clear"
    /\ UNCHANGED <<win_vars, local_vars, obj_vars, bind_vars, shader_vars,
                   frames, last_draw, escape_delivered, loop_exited, end_vars>>

\* glClear(GL_COLOR_BUFFER_BIT)
Clear ==
    /\ pc = "clear"
    /\ iter' = Append(iter, "glClear")
    /\ pc' = "use_program"
    /\ UNCHANGED <<win_vars, local_vars, obj_vars, bind_vars, shader_vars,
                   viewport, frames, last_draw, escape_delivered, loop_exited,
                   end_vars>>

\* glUseProgram(shader_program): a program that is not linked successfully
\* is rejected (GL_INVALID_OPERATION) and the current program stays
UseProgram ==
    /\ pc = "use_program"
    /\ program_used' = shader_program
    /\ current_program' = IF link_status THEN shader_program ELSE current_program
    /\ iter' = Append(iter, "glUseProgram")
    /\ pc' = "bind_vao"
    /\ UNCHANGED <<win_vars, local_vars, obj_vars, array_buffer, vertex_array,
                   vao_element_buffer, vao_attrib, shader_vars, viewport, frames,
                   last_draw, escape_delivered, loop_exited, end_vars>>

\* variant that relies on the binding left by setup and does not bind
BindVertexArray_skipped ==
    /\ pc = "bind_vao"
    /\ pc' = "draw"
    /\ UNCHANGED <<win_vars, local_vars, obj_vars, bind_vars, shader_vars,
                   viewport, iter, frames, last_draw, escape_delivered,
                   loop_exited, end_vars>>

\* glBindVertexArray(vao_name)
BindVertexArray ==
    /\ pc = "bind_vao"
    /\ vertex_array' = vao_name
    /\ iter' = Append(iter, "glBindVertexArray")
    /\ pc' = "draw"
    /\ UNCHANGED <<win_vars, local_vars, obj_vars, array_buffer, current_program,
                   program_used, vao_element_buffer, vao_attrib, shader_vars,
                   viewport, frames, last_draw, escape_delivered, loop_exited,
                   end_vars>>

\* the indices a draw fetches from an index store, starting at element
\* first; -1 stands for a fetch past the end of the store
ReadIndices(data, first, count) ==
    [i \in 1..count |-> IF first + i <= Len(data) THEN data[first + i] ELSE -1]

\* glDrawElements(GL_TRIANGLES, 6, GL_UNSIGNED_INT, 0): indices come from the
\* element buffer recorded in the bound VAO, vertices from its enabled slots;
\* without a bound VAO the core profile rejects the draw
DrawElements ==
    /\ pc = "draw"
    /\ last_draw' =
          IF vertex_array = NONE THEN NoDraw
          ELSE [program        |-> current_program,
                element_buffer |-> vao_element_buffer,
                vertex_buffer  |-> vao_attrib[0].buffer,
                enabled        |-> {s \in Slots : vao_attrib[s].enabled},
                indices_read   |->
                    IF vao_element_buffer = NONE THEN <<>>
                    ELSE ReadIndices(buffer_data[vao_element_buffer],
                                     DrawOffset, DrawCount),
                index_count    |->
                    IF vao_element_buffer = NONE THEN 0
                    ELSE Len(buffer_data[vao_element_buffer]),
                vertex_count   |->
                    IF vao_attrib[0].buffer = NONE \/ vao_attrib[0].size = 0 THEN 0
                    ELSE Len(buffer_data[vao_attrib[0].buffer]) \div vao_attrib[0].size]
    /\ iter' = Append(iter, "glDrawElements")
    /\ pc' = "swap_buffers"
    /\ UNCHANGED <<win_vars, local_vars, obj_vars, bind_vars, shader_vars,
                   viewport, frames, escape_delivered, loop_exited, end_vars>>

\* glfwSwapBuffers(window)
SwapBuffers ==
    /\ pc = "swap_buffers"
    /\ iter' = Append(iter, "glfwSwapBuffers")
    /\ pc' = "poll_events"
    /\ UNCHANGED <<win_vars, local_vars, obj_vars, bind_vars, shader_vars,
                   viewport, frames, last_draw, escape_delivered, loop_exited,
                   end_vars>>

\* glfwPollEvents(): dispatches the pending events
PollEvents ==
    /\ pc = "poll_events"
    /\ \E evs \in EventSeqs(MaxEvents) :
          /\ should_close' = Deliver(should_close, evs)
          /\ escape_delivered' =
                (escape_delivered \/ \E i \in 1..Len(evs) : IsEscapePress(evs[i]))
    /\ iter' = Append(iter, "glfwPollEvents")
    /\ pc' = "loop_check"
    /\ UNCHANGED <<window, context_current, glfw_state, local_vars, obj_vars,
                   bind_vars, shader_vars, viewport, frames, last_draw,
                   loop_exited, end_vars>>

(***************************************************************************)
(* main(): shutdown                                                        *)
(***************************************************************************)
Live(o) == object_state[o] \in {"alive", "flagged"}

\* glfwDestroyWindow(window): the window and its GL context are destroyed;
\* the context is detached from the thread and every object it owns is freed
DestroyWindow ==
    /\ pc = "destroy_window"
    /\ window' = "destroyed"
    /\ context_current' = FALSE
    /\ object_state' = [o \in Objects |->
                           IF Live(o) THEN "released" ELSE object_state[o]]
    /\ release_count' = [o \in DOMAIN release_count |->
                           IF o = "WINDOW" \/ (o \in Objects /\ Live(o))
                           THEN release_count[o] + 1 ELSE release_count[o]]
    /\ buffer_data' = [b \in DOMAIN buffer_data |-> <<>>]
    /\ array_buffer' = NONE /\ vertex_array' = NONE /\ current_program' = NONE
    /\ vao_element_buffer' = NONE
    /\ vao_attrib' = [s \in Slots |-> [enabled |-> FALSE, buffer |-> NONE, size |-> 0]]
    /\ pc' = "delete_vao"
    /\ UNCHANGED <<glfw_state, should_close, local_vars, program_used,
                   shader_vars, loop_vars, end_vars>>

\* effect of a glDelete* call on object o made at shutdown, continuing at
\* next_pc.  With a current context the object is freed (a program also
\* drops its attached shaders).  Without one the call is undefined: the
\* driver either ignores it or the process faults.
DeleteObject(o, next_pc) ==
    /\ delete_log' = Append(delete_log, [object |-> o, context |-> context_current])
    /\ IF context_current
       THEN /\ object_state' =
                 [x \in Objects |->
                     IF x = o /\ Live(o) THEN "released"
                     ELSE IF o = "PROG" /\ x \in attached /\ object_state[x] = "flagged"
                          THEN "released" ELSE object_state[x]]
            /\ release_count' =
                 [x \in DOMAIN release_count |->
                     IF (x = o /\ Live(o))
                        \/ (o = "PROG" /\ x \in attached /\ object_state[x] = "flagged")
                     THEN release_count[x] + 1 ELSE release_count[x]]
            /\ buffer_data' = [b \in DOMAIN buffer_data |->
                                 IF b = o THEN <<>> ELSE buffer_data[b]]
            /\ pc' = next_pc
            /\ UNCHANGED exit_status
       ELSE /\ UNCHANGED obj_vars
            /\ \E outcome \in {"ignored", "fault"} :
                  IF outcome = "ignored"
                  THEN pc' = next_pc /\ UNCHANGED exit_status
                  ELSE pc' = "done" /\ exit_status' = "killed_by_signal"
    /\ UNCHANGED <<win_vars, local_vars, bind_vars, shader_vars, loop_vars>>

\* glDeleteVertexArrays(1, &vao_name)
DeleteVertexArrays == pc = "delete_vao" /\ DeleteObject(vao_name, "delete_vbo")

\* glDeleteBuffers(1, &vbo_name)
DeleteVertexBuffer == pc = "delete_vbo" /\ DeleteObject(vbo_name, "delete_ibo")

\* glDeleteBuffers(1, &ibo_name)
DeleteIndexBuffer == pc = "delete_ibo" /\ DeleteObject(ibo_name, "delete_program")

\* glDeleteProgram(shader_program)
DeleteProgram == pc = "delete_program" /\ DeleteObject(shader_program, "terminate")

\* glfwTerminate()
Terminate ==
    /\ pc = "terminate"
    /\ glfw_state' = "terminated"
    /\ release_count' = [release_count EXCEPT !["GLFW"] = @ + 1]
    /\ pc' = "exit"
    /\ UNCHANGED <<window, context_current, should_close, local_vars,
                   object_state, buffer_data, bind_vars, shader_vars, loop_vars,
                   end_vars>>

\* exit(EXIT_SUCCESS)
Exit ==
    /\ pc = "exit"
    /\ exit_status' = "EXIT_SUCCESS"
    /\ pc' = "done"
    /\ UNCHANGED <<win_vars, local_vars, obj_vars, bind_vars, shader_vars,
                   loop_vars, delete_log>>

Next ==
    \/ InitializeWindow
    \/ GenVertexArrays \/ GenVertexBuffer \/ GenIndexBuffer
    \/ SetupBindVertexArray \/ BindArrayBuffer \/ ArrayBufferData
    \/ BindElementBuffer \/ ElementBufferData \/ VertexAttribPointer
    \/ EnableVertexAttribArray \/ UnbindArrayBuffer \/ UnbindVertexArray
    \/ VertexShaderCompile \/ VertexShaderCheck
    \/ FragmentShaderCompile \/ FragmentShaderCheck
    \/ CreateProgram \/ AttachVertexShader \/ AttachFragmentShader
    \/ LinkProgram \/ LinkCheck \/ DeleteVertexShader \/ DeleteFragmentShader
    \/ LoopCheck \/ GetFramebufferSize \/ Viewport \/ Clear \/ UseProgram
    \/ BindVertexArray \/ DrawElements \/ SwapBuffers \/ PollEvents
    \/ DestroyWindow \/ DeleteVertexArrays \/ DeleteVertexBuffer
    \/ DeleteIndexBuffer \/ DeleteProgram \/ Terminate \/ Exit

Spec == Init /\ [][Next]_vars

(***************************************************************************)
(* Properties                                                              *)
(***************************************************************************)
SetupPcs == {"initialize_window", "gen_vao", "gen_vbo", "gen_ibo",
             "setup_bind_vao", "bind_vbo", "data_vbo", "bind_ibo", "data_ibo",
             "attrib_pointer", "enable_attrib", "unbind_vbo", "unbind_vao"}
BuildPcs == {"vs_compile", "vs_check", "fs_compile", "fs_check",
             "create_program", "attach_vs", "attach_fs", "link", "link_check",
             "delete_vs", "delete_fs"}
LoopPcs  == {"loop_check", "get_framebuffer_size", "viewport", "clear",
             "use_program", "bind_vao", "draw", "swap_buffers", "poll_events"}
ShutdownPcs == {"destroy_window", "delete_vao", "delete_vbo", "delete_ibo",
                "delete_program", "terminate", "exit"}

FullIteration == <<"glfwGetFramebufferSize", "glViewport", "glClear",
                   "glUseProgram", "glBindVertexArray", "glDrawElements",
                   "glfwSwapBuffers", "glfwPollEvents">>

IsPrefix(p, q) == Len(p) <= Len(q) /\ \A i \in 1..Len(p) : p[i] = q[i]
Issued(call)   == \E i \in 1..Len(iter) : iter[i] = call
GpuObjects     == {"VAO", "VBO", "IBO", "PROG"}
DeletedInLog(o) == \E i \in 1..Len(delete_log) : delete_log[i].object = o

\* C1: every shutdown deletion of the three geometry objects and of the
\* program is issued while the window's rendering context still exists, and
\* the window is destroyed (and the library torn down) only after all four
\* deletions have been issued.
C1_DeletionsBeforeWindowDestruction ==
    /\ \A i \in 1..Len(delete_log) : delete_log[i].context
    /\ (window = "destroyed" \/ glfw_state = "terminated")
          => \A o \in GpuObjects : DeletedInLog(o)

\* C2: an Escape press delivered during event processing leaves the close
\* flag true; the flag never goes back to false; the loop check that sees
\* the flag true goes to shutdown without starting an iteration; and after
\* that check no call of the loop (so no draw) is issued any more.
C2_EscapeClosesAndLoopExits ==
    /\ [](escape_delivered => should_close)
    /\ [][should_close => should_close']_vars
    /\ [][(pc = "loop_check" /\ should_close)
            => (pc' = "destroy_window" /\ loop_exited'
                /\ frames' = frames /\ iter' = iter)]_vars
    /\ [][loop_exited => (pc' \notin LoopPcs /\ frames' = frames
                          /\ iter' = iter /\ last_draw' = last_draw)]_vars

C2_Witness ==
    escape_delivered /\ loop_exited /\ pc = "destroy_window" /\ Issued("glDrawElements")

\* C3: the calls of an iteration are always a prefix of the eight steps in
\* their order (each once), the position in the loop is the length of that
\* prefix, a finished iteration has issued all eight, the viewport is the
\* size just queried, and a draw has the program and the vertex array of
\* main activated before it in the same iteration.
C3_IterationOrder ==
    /\ IsPrefix(iter, FullIteration)
    /\ (pc = "loop_check" /\ frames > 0) => iter = FullIteration
    /\ pc = "get_framebuffer_size" => iter = <<>>
    /\ pc = "viewport"     => Len(iter) = 1
    /\ pc = "clear"        => (Len(iter) = 2 /\ viewport = <<width, height>>)
    /\ pc = "use_program"  => Len(iter) = 3
    /\ pc = "bind_vao"     => (Len(iter) = 4 /\ program_used = shader_program)
    /\ pc = "draw"         => (Len(iter) = 5 /\ program_used = shader_program
                               /\ vertex_array = vao_name /\ vao_name # NONE)
    /\ pc = "swap_buffers" => (Len(iter) = 6 /\ Len(last_draw.indices_read) = 6)
    /\ pc = "poll_events"  => Len(iter) = 7

C3_Witness == pc = "loop_check" /\ frames >= 2 /\ iter = FullIteration

ExpectedDiagnostics ==
    (IF compile_status["VS"] THEN <<>>
     ELSE <<"ERROR::SHADER::VERTEX::COMPILATION_FAILED">>)
    \o (IF compile_status["FS"] THEN <<>>
        ELSE <<"ERROR::SHADER::FRAGMENT::COMPILATION_FAILED">>)
    \o (IF link_status THEN <<>>
        ELSE <<"ERROR::SHADER::PROGRAM::LINKING_FAILED">>)

\* C4: whatever the compile and link outcomes, once create_shader_program
\* has returned the output holds exactly the diagnostics of the failed
\* stages, in order; the link was attempted with both shaders attached; a
\* program identifier was returned; the process did not end during the
\* build; the loop is entered, and every draw is issued after
\* glUseProgram with that identifier.
C4_LogAndContinue ==
    /\ pc \in BuildPcs \cup LoopPcs => exit_status = "running"
    /\ exit_status # "running" => (loop_exited /\ frames >= 1)
    /\ pc \notin SetupPcs \cup BuildPcs =>
          /\ stdout = ExpectedDiagnostics
          /\ linked /\ attached = {"VS", "FS"}
          /\ shader_program = "PROG"
    /\ (pc = "loop_check" /\ frames = 0) => ~should_close
    /\ Issued("glDrawElements") => program_used = shader_program

C4_Witness ==
    /\ pc = "swap_buffers"
    /\ ~compile_status["VS"] /\ ~compile_status["FS"] /\ ~link_status
    /\ Len(stdout) = 3

\* C5: whenever the process has ended after leaving the render loop, its
\* exit status is EXIT_SUCCESS (0), whatever the shader build did.
C5_ExitStatusZero ==
    pc = "done" => exit_status = "EXIT_SUCCESS"

C7_EverythingReleasedAtExit ==
    pc = "done" =>
        /\ window = "destroyed" /\ release_count["WINDOW"] = 1
        /\ \A o \in GpuObjects :
              /\ object_state[o] = "released" /\ release_count[o] = 1
              /\ Cardinality({i \in 1..Len(delete_log) : delete_log[i].object = o}) = 1
        /\ glfw_state = "terminated" /\ release_count["GLFW"] = 1

\* C8: from the return of geometry setup until shutdown starts, the vertex
\* array object records the index buffer as its element buffer and slot 0
\* as enabled and sourced from the vertex buffer, no other slot is enabled,
\* and the array-buffer binding is back to none; every draw of the loop
\* reads through that index buffer and that vertex buffer.
C8_VaoKeepsIndexBuffer ==
    /\ pc \in BuildPcs \cup LoopPcs \cup {"destroy_window"} =>
          /\ vao_element_buffer = "IBO" /\ ibo_name = "IBO"
          /\ vao_attrib[0].enabled /\ vao_attrib[0].buffer = "VBO"
          /\ vbo_name = "VBO"
          /\ \A s \in Slots \ {0} : ~vao_attrib[s].enabled
          /\ array_buffer = NONE
    /\ Issued("glDrawElements") =>
          /\ last_draw.element_buffer = "IBO"
          /\ last_draw.vertex_buffer = "VBO"
          /\ last_draw.enabled = {0}

C8_Witness ==
    pc = "swap_buffers" /\ last_draw.element_buffer = "IBO"
    /\ last_draw.vertex_buffer = "VBO"

\* C9: while the index buffer exists after its upload its store is exactly
\* [0,1,3,1,2,3]; every draw reads 6 indices from offset 0, which is the
\* whole store, the indices read are [0,1,3,1,2,3], and each is below the
\* number of uploaded vertices, 4.
C9_IndexBufferContents ==
    /\ (pc \notin SetupPcs /\ object_state["IBO"] = "alive")
          => buffer_data["IBO"] = <<0, 1, 3, 1, 2, 3>>
    /\ Issued("glDrawElements") =>
          /\ last_draw.indices_read = <<0, 1, 3, 1, 2, 3>>
          /\ last_draw.index_count = 6
          /\ last_draw.vertex_count = 4
          /\ \A i \in 1..Len(last_draw.indices_read) :
                last_draw.indices_read[i] \in 0..(last_draw.vertex_count - 1)

C9_Witness ==
    pc = "swap_buffers" /\ frames >= 2
    /\ last_draw.indices_read = <<0, 1, 3, 1, 2, 3>>

\* C10: shutdown is reached only through a loop check that saw the close
\* flag set; a finished iteration ended with event processing; and a
\* process that has left the loop and ended has completed shutdown: all
\* four deletions issued, the library torn down, exit through
\* exit(EXIT_SUCCESS).
C10_LoopExitOnlyByFlagAndShutdownCompletes ==
    /\ pc \in ShutdownPcs \cup {"done"} => (should_close /\ loop_exited)
    /\ (pc = "loop_check" /\ frames > 0) =>
          (iter # <<>> /\ iter[Len(iter)] = "glfwPollEvents")
    /\ pc = "done" =>
          /\ Len(delete_log) = 4
          /\ glfw_state = "terminated"
          /\ exit_status = "EXIT_SUCCESS"

TypeOK ==
    /\ window \in {"none", "open", "destroyed"}
    /\ exit_status \in {"running", "EXIT_SUCCESS", "killed_by_signal"}
    /\ frames \in 0..MaxFrames
    /\ should_close \in BOOLEAN
====
